---- MODULE Spec2Model ----
(***************************************************************************)
(* A model of polystem (src/src/lib.rs): the S stemmer and the Porter      *)
(* stemmer.  Words and the byte buffer are TLA+ strings of ASCII           *)
(* characters; positions are the 0-based indices of the source.           *)
(*                                                                         *)
(* A Porter value is the record p = [buf, k, j, panic, jset, reads]: buf,  *)
(* k and j are the fields of struct Porter; panic says that the call has   *)
(* panicked (an index outside the buffer, or a usize subtraction below     *)
(* zero, which panics in a debug build and wraps to an index outside the   *)
(* buffer, hence panics too, in a release build).  jset and reads are      *)
(* history fields: jset says that j was assigned since the current phase   *)
(* began, reads records every use of j with the k it was used under.       *)
(***************************************************************************)
EXTENDS Integers, Sequences, FiniteSets, TLC

VARIABLES
    word,    \* the argument of the call
    pc,      \* the position of the call
    buf,     \* Porter::buf
    k,       \* Porter::k
    j,       \* Porter::j
    ret,     \* the value returned
    fault,   \* the expression that panicked, "" when none did
    arg,     \* the suffix passed to ends_with
    ran,     \* history: the phases of Porter::stem that have run to their end
    reads    \* history: the uses of j, each with the phase it happened in

vars == <<word, pc, buf, k, j, ret, fault, arg, ran, reads>>

(***************************************************************************)
(* Bounds of the model.                                                    *)
(***************************************************************************)
MaxStem == 3

(***************************************************************************)
(* Characters and strings.                                                 *)
(***************************************************************************)
at(b, i) == SubSeq(b, i + 1, i + 1)

UpperCase == "ABCDEFGHIJKLMNOPQRSTUVWXYZ"

LowerCase == "abcdefghijklmnopqrstuvwxyz"

\* u8::to_ascii_lowercase: 'A'..'Z' map to 'a'..'z', every other byte is kept.
lower_char(c) ==
    IF \E i \in 1..26 : SubSeq(UpperCase, i, i) = c
    THEN LET i == CHOOSE i \in 1..26 : SubSeq(UpperCase, i, i) = c
         IN  SubSeq(LowerCase, i, i)
    ELSE c

RECURSIVE to_ascii_lowercase(_)
to_ascii_lowercase(w) ==
    IF Len(w) = 0 THEN ""
    ELSE to_ascii_lowercase(SubSeq(w, 1, Len(w) - 1)) \o lower_char(at(w, Len(w) - 1))

\* str::ends_with
str_ends_with(w, s) == Len(s) <= Len(w) /\ SubSeq(w, Len(w) - Len(s) + 1, Len(w)) = s

\* String::truncate
truncate(w, n) == SubSeq(w, 1, n)

(***************************************************************************)
(* S::stem                                                                 *)
(***************************************************************************)
\* S::stem with the tests for "es" and "s" in the wrong order.
S_stem_s_first(w) ==
    LET stem == to_ascii_lowercase(w)
    IN  IF str_ends_with(stem, "ies") THEN truncate(stem, Len(stem) - 3) \o "y"
        ELSE IF str_ends_with(stem, "s") THEN truncate(stem, Len(stem) - 1)
        ELSE IF str_ends_with(stem, "es") THEN truncate(stem, Len(stem) - 2)
        ELSE stem

S_stem(w) ==
    LET stem == to_ascii_lowercase(w)
    IN  IF str_ends_with(stem, "ies") THEN truncate(stem, Len(stem) - 3) \o "y"
        ELSE IF str_ends_with(stem, "es") THEN truncate(stem, Len(stem) - 2)
        ELSE IF str_ends_with(stem, "s") THEN truncate(stem, Len(stem) - 1)
        ELSE stem

(***************************************************************************)
(* Porter: construction and the history fields.                            *)
(***************************************************************************)
Porter_new(w) ==
    [buf |-> to_ascii_lowercase(w), k |-> Len(w), j |-> 0,
     panic |-> "", jset |-> FALSE, reads |-> {}]

\* A panic: site is the expression of the source that panics.
Panic(p, site) == [p EXCEPT !.panic = site]

Panicked(p) == p.panic # ""

InBuf(p, i) == i >= 0 /\ i < Len(p.buf)

\* The history of a use of j at a site of the source.
Read(p, site) ==
    [p EXCEPT !.reads = @ \cup {[site |-> site, j |-> p.j, k |-> p.k, set |-> p.jset]}]

(***************************************************************************)
(* Classification primitives.                                              *)
(***************************************************************************)
RECURSIVE is_consonant(_, _)
is_consonant(b, i) ==
    IF at(b, i) \in {"a", "e", "i", "o", "u"} THEN FALSE
    ELSE IF at(b, i) = "y" THEN (IF i = 0 THEN TRUE ELSE ~is_consonant(b, i - 1))
    ELSE TRUE

has_vowel(p) == \E i \in 0..(p.j - 1) : ~is_consonant(p.buf, i)

\* The three loops of count: "lead" is the loop of lines 101-109, "vowel" the
\* loop of lines 112-120 and "cons" the loop of lines 124-132.
RECURSIVE count_loop(_, _, _, _, _)
count_loop(b, jj, i, n, at_loop) ==
    IF i >= jj THEN n
    ELSE IF at_loop = "lead" THEN
        IF ~is_consonant(b, i) THEN count_loop(b, jj, i + 1, n, "vowel")
        ELSE count_loop(b, jj, i + 1, n, "lead")
    ELSE IF at_loop = "vowel" THEN
        IF is_consonant(b, i) THEN count_loop(b, jj, i + 1, n + 1, "cons")
        ELSE count_loop(b, jj, i + 1, n, "vowel")
    ELSE
        IF ~is_consonant(b, i) THEN count_loop(b, jj, i + 1, n, "vowel")
        ELSE count_loop(b, jj, i + 1, n, "cons")

\* count incrementing when a vowel follows a consonant run that follows a vowel.
count_at_vowel(p) ==
    Cardinality({i \in 1..(p.j - 1) :
        /\ ~is_consonant(p.buf, i)
        /\ is_consonant(p.buf, i - 1)
        /\ \E h \in 0..(i - 1) : ~is_consonant(p.buf, h)})

\* count without the loop of lines 101-109.
count_no_lead(p) == count_loop(p.buf, p.j, 0, 0, "vowel")

count(p) == count_loop(p.buf, p.j, 0, 0, "lead")

double_consonant(p, index) ==
    IF index < 1 \/ index > p.k - 1 THEN FALSE
    ELSE IF at(p.buf, index) # at(p.buf, index - 1) THEN FALSE
    ELSE is_consonant(p.buf, index)

cvc(p, index) ==
    IF index < 2 \/ index > p.k - 1 THEN FALSE
    ELSE IF \/ ~is_consonant(p.buf, index)
            \/ is_consonant(p.buf, index - 1)
            \/ ~is_consonant(p.buf, index - 2) THEN FALSE
    ELSE at(p.buf, index) \notin {"w", "x", "y"}

(***************************************************************************)
(* Buffer and boundary primitives.                                         *)
(***************************************************************************)
\* ends_with returns a boolean and may assign j: ret is the value returned,
\* p the Porter value after the call.
\* ends_with assigning j before the comparison.
ends_with_j_first(p, s) ==
    IF Len(s) > p.k THEN [ret |-> FALSE, p |-> p]
    ELSE [ret |-> SubSeq(p.buf, p.k - Len(s) + 1, p.k) = s,
          p |-> [p EXCEPT !.j = p.k - Len(s), !.jset = TRUE]]

ends_with(p, s) ==
    IF Len(s) > p.k THEN [ret |-> FALSE, p |-> p]
    ELSE IF SubSeq(p.buf, p.k - Len(s) + 1, p.k) # s THEN [ret |-> FALSE, p |-> p]
    ELSE [ret |-> TRUE, p |-> [p EXCEPT !.j = p.k - Len(s), !.jset = TRUE]]

replace(p, s) ==
    LET q == Read(p, "replace")
    IN  IF q.j + Len(s) > Len(q.buf) THEN Panic(q, "buf[j + i]")
        ELSE [q EXCEPT !.buf = SubSeq(q.buf, 1, q.j) \o s
                                \o SubSeq(q.buf, q.j + Len(s) + 1, Len(q.buf)),
                       !.k = q.j + Len(s)]

r(p, s) ==
    LET q == Read(p, "count")
    IN  IF count(q) > 0 THEN replace(q, s) ELSE q

(***************************************************************************)
(* Step1ab.  Lines 238-246 strip a plural (step1a), lines 248-271 strip    *)
(* 'ed' or 'ing' (step1b); step1ab runs the one and then the other.        *)
(***************************************************************************)
\* step1a without the test of line 243.
step1a_any_s(p) ==
    IF ~InBuf(p, p.k - 1) THEN Panic(p, "buf[k - 1]")
    ELSE IF at(p.buf, p.k - 1) # "s" THEN p
    ELSE IF ends_with(p, "sses").ret THEN [ends_with(p, "sses").p EXCEPT !.k = @ - 2]
    ELSE IF ends_with(p, "ies").ret THEN replace(ends_with(p, "ies").p, "i")
    ELSE [p EXCEPT !.k = @ - 1]

step1a(p) ==
    IF ~InBuf(p, p.k - 1) THEN Panic(p, "buf[k - 1]")
    ELSE IF at(p.buf, p.k - 1) # "s" THEN p
    ELSE IF ends_with(p, "sses").ret THEN [ends_with(p, "sses").p EXCEPT !.k = @ - 2]
    ELSE IF ends_with(p, "ies").ret THEN replace(ends_with(p, "ies").p, "i")
    ELSE IF ~InBuf(p, p.k - 2) THEN Panic(p, "buf[k - 2]")
    ELSE IF at(p.buf, p.k - 2) # "s" THEN [p EXCEPT !.k = @ - 1]
    ELSE p

\* Lines 256-270: the word after 'ed' or 'ing' was cut off.
step1b_restore(p) ==
    IF ends_with(p, "at").ret THEN replace(ends_with(p, "at").p, "ate")
    ELSE IF ends_with(p, "bl").ret THEN replace(ends_with(p, "bl").p, "ble")
    ELSE IF ends_with(p, "iz").ret THEN replace(ends_with(p, "iz").p, "ize")
    ELSE IF p.k - 1 < 0 THEN Panic(p, "k - 1")
    ELSE IF double_consonant(p, p.k - 1) THEN
        LET q == [p EXCEPT !.k = @ - 1]
        IN  IF ~InBuf(q, q.k - 1) THEN Panic(q, "buf[k - 1]")
            ELSE IF at(q.buf, q.k - 1) \in {"l", "s", "z"} THEN [q EXCEPT !.k = @ + 1]
            ELSE q
    ELSE LET q == Read(p, "count")
         IN  IF 1 = count(q) /\ cvc(q, q.k - 1) THEN replace(q, "e") ELSE q

\* step1b with k += 1 for k -= 1 at line 250.
step1b_eed_grows(p) ==
    LET eed == ends_with(p, "eed")
        ed  == ends_with(p, "ed")
        ing == ends_with(p, "ing")
    IN  IF eed.ret THEN
            LET q == Read(eed.p, "count")
            IN  IF count(q) > 0 THEN [q EXCEPT !.k = @ + 1] ELSE q
        ELSE IF ed.ret \/ ing.ret THEN
            LET q == Read(IF ed.ret THEN ed.p ELSE ing.p, "has_vowel")
            IN  IF has_vowel(q)
                THEN step1b_restore([Read(q, "k = j") EXCEPT !.k = q.j])
                ELSE q
        ELSE p

step1b(p) ==
    LET eed == ends_with(p, "eed")
        ed  == ends_with(p, "ed")
        ing == ends_with(p, "ing")
    IN  IF eed.ret THEN
            LET q == Read(eed.p, "count")
            IN  IF count(q) > 0 THEN [q EXCEPT !.k = @ - 1] ELSE q
        ELSE IF ed.ret \/ ing.ret THEN
            LET q == Read(IF ed.ret THEN ed.p ELSE ing.p, "has_vowel")
            IN  IF has_vowel(q)
                THEN step1b_restore([Read(q, "k = j") EXCEPT !.k = q.j])
                ELSE q
        ELSE p

step1ab(p) ==
    LET q == step1a(p)
    IN  IF Panicked(q) THEN q ELSE step1b(q)

(***************************************************************************)
(* Step1c                                                                  *)
(***************************************************************************)
step1c(p) ==
    LET y == ends_with(p, "y")
    IN  IF ~y.ret THEN p
        ELSE LET q == Read(y.p, "has_vowel")
             IN  IF has_vowel(q)
                 THEN [q EXCEPT !.buf = SubSeq(q.buf, 1, q.k - 1) \o "i"
                                         \o SubSeq(q.buf, q.k + 1, Len(q.buf))]
                 ELSE q

(***************************************************************************)
(* Step2 and Step3: the arms of the match, in the order of the source.     *)
(* arm is the byte the match dispatches on, suffix the argument of         *)
(* ends_with and with the argument of r.                                   *)
(***************************************************************************)
Rule(arm, suffix, with) == [arm |-> arm, suffix |-> suffix, with |-> with]

Step2Rules ==
    << Rule("a", "ational", "ate"), Rule("a", "tional", "tion"),
       Rule("c", "enci", "ence"), Rule("c", "anci", "ance"),
       Rule("e", "izer", "ize"),
       Rule("l", "bli", "ble"), Rule("l", "alli", "al"), Rule("l", "entli", "ent"),
       Rule("l", "eli", "e"), Rule("l", "ousli", "ous"),
       Rule("o", "ization", "ize"), Rule("o", "ation", "ate"), Rule("o", "ator", "ate"),
       Rule("s", "alism", "al"), Rule("s", "iveness", "ive"),
       Rule("s", "fulness", "ful"), Rule("s", "ousness", "ous"),
       Rule("t", "aliti", "al"), Rule("t", "iviti", "ive"), Rule("t", "biliti", "ble"),
       Rule("g", "logi", "log") >>

Step3Rules ==
    << Rule("e", "icate", "ic"), Rule("e", "ative", ""), Rule("e", "alize", "al"),
       Rule("i", "iciti", "ic"),
       Rule("l", "ical", "ic"), Rule("l", "ful", ""),
       Rule("s", "ness", "") >>

\* The first rule of the arm c whose suffix the word ends with, 0 when none.
FirstMatch(p, rules, c) ==
    LET hits == {i \in 1..Len(rules) :
                    rules[i].arm = c /\ ends_with(p, rules[i].suffix).ret}
    IN  IF hits = {} THEN 0
        ELSE CHOOSE i \in hits : \A h \in hits : i <= h

\* An arm of step2 or step3: the first matching ends_with, then r and return.
rewrite(p, rules, c) ==
    LET m == FirstMatch(p, rules, c)
    IN  IF m = 0 THEN p
        ELSE r(ends_with(p, rules[m].suffix).p, rules[m].with)

step2(p) ==
    IF ~InBuf(p, p.k - 2) THEN Panic(p, "buf[k - 2]")
    ELSE rewrite(p, Step2Rules, at(p.buf, p.k - 2))

step3(p) ==
    IF ~InBuf(p, p.k - 1) THEN Panic(p, "buf[k - 1]")
    ELSE rewrite(p, Step3Rules, at(p.buf, p.k - 1))

(***************************************************************************)
(* Step4                                                                   *)
(***************************************************************************)
\* Step4Rules with "ent" tested before "ement" and "ment" in the arm b'n'.
Step4Rules_ent_first ==
    << Rule("a", "al", ""),
       Rule("c", "ance", ""), Rule("c", "ence", ""),
       Rule("e", "er", ""),
       Rule("i", "ic", ""),
       Rule("l", "able", ""), Rule("l", "ible", ""),
       Rule("n", "ant", ""), Rule("n", "ent", ""), Rule("n", "ement", ""),
       Rule("n", "ment", ""),
       Rule("s", "ism", ""),
       Rule("t", "ate", ""), Rule("t", "iti", ""),
       Rule("u", "ous", ""),
       Rule("v", "ive", ""),
       Rule("z", "ize", "") >>

\* The arms of step4 other than b'o', in the order of the source.
Step4Rules ==
    << Rule("a", "al", ""),
       Rule("c", "ance", ""), Rule("c", "ence", ""),
       Rule("e", "er", ""),
       Rule("i", "ic", ""),
       Rule("l", "able", ""), Rule("l", "ible", ""),
       Rule("n", "ant", ""), Rule("n", "ement", ""), Rule("n", "ment", ""),
       Rule("n", "ent", ""),
       Rule("s", "ism", ""),
       Rule("t", "ate", ""), Rule("t", "iti", ""),
       Rule("u", "ous", ""),
       Rule("v", "ive", ""),
       Rule("z", "ize", "") >>

\* Lines 548-550.
step4_truncate(p) ==
    LET q == Read(p, "count")
    IN  IF count(q) > 1 THEN [Read(q, "k = j") EXCEPT !.k = q.j] ELSE q

\* Lines 496-507: the arm b'o'.
step4_o(p) ==
    LET ion == ends_with(p, "ion")
        ou  == ends_with(p, "ou")
    IN  IF ion.ret THEN
            LET q == Read(ion.p, "buf[j - 1]")
            IN  IF ~InBuf(q, q.j - 1) THEN Panic(q, "buf[j - 1]")
                ELSE IF at(q.buf, q.j - 1) \in {"s", "t"} THEN step4_truncate(q)
                \* the word ends with "ion", so ends_with("ou") fails
                ELSE q
        ELSE IF ou.ret THEN step4_truncate(ou.p)
        ELSE p

step4(p) ==
    IF ~InBuf(p, p.k - 2) THEN Panic(p, "buf[k - 2]")
    ELSE IF at(p.buf, p.k - 2) = "o" THEN step4_o(p)
    ELSE LET m == FirstMatch(p, Step4Rules, at(p.buf, p.k - 2))
         IN  IF m = 0 THEN p
             ELSE step4_truncate(ends_with(p, Step4Rules[m].suffix).p)

(***************************************************************************)
(* Step5                                                                   *)
(***************************************************************************)
\* Lines 565-570.
step5_l(p) ==
    IF ~InBuf(p, p.k - 1) THEN Panic(p, "buf[k - 1]")
    ELSE IF at(p.buf, p.k - 1) = "l" /\ double_consonant(p, p.k - 1) THEN
        LET q == Read(p, "count")
        IN  IF count(q) > 1 THEN [q EXCEPT !.k = @ - 1] ELSE q
    ELSE p

\* step5 with cvc(k - 1) for cvc(k - 2) at line 560.
step5_cvc_at_e(p) ==
    LET p0 == [p EXCEPT !.j = p.k, !.jset = TRUE]
    IN  IF ~InBuf(p0, p0.k - 1) THEN Panic(p0, "buf[k - 1]")
        ELSE IF at(p0.buf, p0.k - 1) = "e" THEN
            LET q == Read(p0, "count")
                c == count(q)
            IN  IF c > 1 \/ (c = 1 /\ ~cvc(q, q.k - 1))
                THEN step5_l([q EXCEPT !.k = @ - 1])
                ELSE step5_l(q)
        ELSE step5_l(p0)

\* step5 without the assignment of line 557.
step5_stale_j(p) ==
    IF ~InBuf(p, p.k - 1) THEN Panic(p, "buf[k - 1]")
    ELSE IF at(p.buf, p.k - 1) = "e" THEN
        LET q == Read(p, "count")
            c == count(q)
        IN  IF c > 1 \/ (c = 1 /\ ~cvc(q, q.k - 2))
            THEN step5_l([q EXCEPT !.k = @ - 1])
            ELSE step5_l(q)
    ELSE step5_l(p)

step5(p) ==
    LET p0 == [p EXCEPT !.j = p.k, !.jset = TRUE]
    IN  IF ~InBuf(p0, p0.k - 1) THEN Panic(p0, "buf[k - 1]")
        ELSE IF at(p0.buf, p0.k - 1) = "e" THEN
            LET q == Read(p0, "count")
                c == count(q)
            IN  IF c > 1 \/ (c = 1 /\ ~cvc(q, q.k - 2))
                THEN step5_l([q EXCEPT !.k = @ - 1])
                ELSE step5_l(q)
        ELSE step5_l(p0)

\* Porter::_stem
stem_(p) == SubSeq(p.buf, 1, p.k)

(***************************************************************************)
(* The words the model stems: every string of at most MaxStem letters of   *)
(* StemLetters followed by one of Endings, and the words of the tests and  *)
(* of the comments of the source.                                          *)
(***************************************************************************)
StemLetters == {"a", "e", "l", "t", "y", "S"}

RECURSIVE Strings(_, _)
Strings(letters, n) ==
    IF n = 0 THEN {""}
    ELSE LET shorter == Strings(letters, n - 1)
         IN  shorter \cup {s \o c : s \in shorter, c \in letters}

Stems == Strings(StemLetters, MaxStem)

RuleSuffixes(rules) == {rules[i].suffix : i \in 1..Len(rules)}

Endings ==
    {"", "s", "ss", "es", "ies", "sses", "eed", "ed", "ing", "ated", "bling", "ized",
     "tted", "lling", "y", "e", "le", "lle", "ll", "ion", "ions", "sion", "tion", "ou"}
    \cup RuleSuffixes(Step2Rules) \cup RuleSuffixes(Step3Rules)
    \cup RuleSuffixes(Step4Rules)

Scenarios ==
    {"caresses", "ponies", "ties", "caress", "cats", "feed", "agreed", "disabled",
     "matting", "mating", "meeting", "milling", "messing", "meetings",
     "flies", "blesses", "suitcases", "theres", "suns", "CAT", "Its", "belle"}

Words == {s \o e : s \in Stems, e \in Endings} \cup Scenarios

(***************************************************************************)
(* Porter::stem, one action per phase.                                     *)
(***************************************************************************)
\* The Porter value of the state, at the start of a phase.
Self ==
    [buf |-> buf, k |-> k, j |-> j, panic |-> "", jset |-> FALSE, reads |-> {}]

Init ==
    /\ word \in Words
    /\ pc = "stem"
    /\ buf = ""
    /\ k = 0
    /\ j = 0
    /\ ret = ""
    /\ fault = ""
    /\ arg = ""
    /\ ran = <<>>
    /\ reads = {}

\* StemShort returning the lowercased word.
StemShort_lowercased ==
    /\ pc = "stem"
    /\ ~(Len(word) > 2)
    /\ ret' = to_ascii_lowercase(word)
    /\ pc' = "returned"
    /\ UNCHANGED <<word, buf, k, j, fault, arg, ran, reads>>

\* Line 602: a word of at most two bytes is returned as it is.
StemShort ==
    /\ pc = "stem"
    /\ ~(Len(word) > 2)
    /\ ret' = word
    /\ pc' = "returned"
    /\ UNCHANGED <<word, buf, k, j, fault, arg, ran, reads>>

\* Lines 590-591.
StemNew ==
    /\ pc = "stem"
    /\ Len(word) > 2
    /\ LET p == Porter_new(word)
       IN  /\ buf' = p.buf
           /\ k' = p.k
           /\ j' = p.j
    /\ pc' = "step1ab"
    /\ UNCHANGED <<word, ret, fault, arg, ran, reads>>

\* A phase of lines 592-597: the call of a step, which returns or panics; q is
\* the Porter value the step leaves.
Phase(name, q, next) ==
    /\ buf' = q.buf
    /\ k' = q.k
    /\ j' = q.j
    /\ reads' = reads \cup {[phase |-> name, site |-> e.site, j |-> e.j, k |-> e.k,
                             set |-> e.set] : e \in q.reads}
    /\ fault' = q.panic
    /\ ran' = IF Panicked(q) THEN ran ELSE Append(ran, name)
    /\ pc' = IF Panicked(q) THEN "panic" ELSE next
    /\ UNCHANGED <<word, ret, arg>>

Step1ab ==
    /\ pc = "step1ab"
    /\ Phase("step1ab", step1ab(Self), "step1c")

Step1c ==
    /\ pc = "step1c"
    /\ Phase("step1c", step1c(Self), "step2")

Step2 ==
    /\ pc = "step2"
    /\ Phase("step2", step2(Self), "step3")

Step3 ==
    /\ pc = "step3"
    /\ Phase("step3", step3(Self), "step4")

Step4 ==
    /\ pc = "step4"
    /\ Phase("step4", step4(Self), "step5")

Step5 ==
    /\ pc = "step5"
    /\ Phase("step5", step5(Self), "_stem")

\* Line 599: the slice buf[..k] of _stem panics when k is past the buffer.
StemReturn ==
    /\ pc = "_stem"
    /\ IF k > Len(buf)
       THEN /\ pc' = "panic"
            /\ fault' = "buf[..k]"
            /\ ret' = ret
       ELSE /\ pc' = "returned"
            /\ fault' = fault
            /\ ret' = stem_(Self)
    /\ UNCHANGED <<word, buf, k, j, arg, ran, reads>>

Next ==
    \/ StemShort
    \/ StemNew
    \/ Step1ab
    \/ Step1c
    \/ Step2
    \/ Step3
    \/ Step4
    \/ Step5
    \/ StemReturn

Spec == Init /\ [][Next]_vars

(***************************************************************************)
(* S::stem on the same words.                                              *)
(***************************************************************************)
InitS ==
    /\ word \in Words
    /\ pc = "S::stem"
    /\ buf = ""
    /\ k = 0
    /\ j = 0
    /\ ret = ""
    /\ fault = ""
    /\ arg = ""
    /\ ran = <<>>
    /\ reads = {}

SStem ==
    /\ pc = "S::stem"
    /\ ret' = S_stem(word)
    /\ pc' = "returned"
    /\ UNCHANGED <<word, buf, k, j, fault, arg, ran, reads>>

SpecS == InitS /\ [][SStem]_vars

(***************************************************************************)
(* Porter::count on every buffer of at most MaxCountLen letters of         *)
(* CountLetters and on the buffers of test_count, with the cursor an       *)
(* explicit assignment as in the test (p.j = 3).                           *)
(***************************************************************************)
MaxCountLen == 6

CountLetters == {"b", "e", "y"}

CountWords == Strings(CountLetters, MaxCountLen) \cup {"bc", "bebebebe"}

InitCount ==
    /\ word \in CountWords
    /\ pc = "count"
    /\ buf = Porter_new(word).buf
    /\ k = Porter_new(word).k
    /\ j \in 0..Len(word)
    /\ ret = 0
    /\ fault = ""
    /\ arg = ""
    /\ ran = <<>>
    /\ reads = {}

Count ==
    /\ pc = "count"
    /\ ret' = count(Self)
    /\ pc' = "returned"
    /\ UNCHANGED <<word, buf, k, j, fault, arg, ran, reads>>

SpecCount == InitCount /\ [][Count]_vars

(***************************************************************************)
(* Porter::ends_with on every buffer of at most MaxBufLen letters of       *)
(* SuffixLetters and on the buffers of test_ends_with, under every         *)
(* effective length k and cursor j within the buffer.                      *)
(***************************************************************************)
MaxBufLen == 4

SuffixLetters == {"o", "n", "s"}

EndsWithWords == Strings(SuffixLetters, MaxBufLen) \cup {"session"}

EndsWithArgs == Strings(SuffixLetters, MaxBufLen - 1) \cup {"ion", "ions"}

InitEndsWith ==
    /\ word \in EndsWithWords
    /\ pc = "ends_with"
    /\ buf = Porter_new(word).buf
    /\ k \in 0..Len(word)
    /\ j \in 0..Len(word)
    /\ ret = FALSE
    /\ fault = ""
    /\ arg \in EndsWithArgs
    /\ ran = <<>>
    /\ reads = {}

EndsWith ==
    /\ pc = "ends_with"
    /\ LET e == ends_with(Self, arg)
       IN  /\ ret' = e.ret
           /\ buf' = e.p.buf
           /\ k' = e.p.k
           /\ j' = e.p.j
    /\ pc' = "returned"
    /\ UNCHANGED <<word, fault, arg, ran, reads>>

SpecEndsWith == InitEndsWith /\ [][EndsWith]_vars

(***************************************************************************)
(* Properties of Porter::stem, checked under Spec.                         *)
(***************************************************************************)
SixPhases == <<"step1ab", "step1c", "step2", "step3", "step4", "step5">>

\* The live prefix [0, k) of the buffer.
Live == SubSeq(buf, 1, k)

\* C1: Porter::stem is total: whatever the word, no phase panics (no index
\* outside the buffer, no k - 1, k - 2 or j - 1 below zero), and a call that
\* built a Porter returns after all six phases have run.
C1_StemIsTotal ==
    /\ pc # "panic"
    /\ (pc = "returned" /\ Len(word) > 2) => ran = SixPhases

\* C2 as it was claimed: a word of at most 3 characters is returned unchanged,
\* case preserved, and none of the six phases runs.
C2_ThreeLettersUnchanged ==
    (pc = "returned" /\ Len(word) <= 3) => (ret = word /\ ran = <<>>)

\* C2, amended: a word of at most 2 characters is returned unchanged, case
\* preserved, without a buffer being built or any phase run; a word of 3 or
\* more characters is lowercased into the buffer, goes through the phases, and
\* what is returned of it is lowercase.
C2_TwoLettersUnchanged ==
    /\ (pc = "returned" /\ Len(word) <= 2) => (ret = word /\ ran = <<>> /\ buf = "")
    /\ (pc # "stem" /\ Len(word) > 2) => buf = to_ascii_lowercase(buf)
    /\ (pc = "returned" /\ Len(word) > 2) =>
            (ran = SixPhases /\ ret = to_ascii_lowercase(ret))
    /\ ran # <<>> => Len(word) > 2

\* A two-letter word with an uppercase letter was returned as it is.
C2_Witness ==
    /\ pc = "returned"
    /\ Len(word) = 2
    /\ word # to_ascii_lowercase(word)
    /\ ret = word

\* C3: length monotonicity: for a word of more than 3 characters the effective
\* length k never exceeds the length of the word, so the string returned is no
\* longer than the word; and the rewrites of Step1ab after 'ed' or 'ing' was
\* cut off ('at' -> 'ate', 'bl' -> 'ble', 'iz' -> 'ize', an appended 'e') leave
\* k no greater than it was before the cut.
C3_LengthMonotone ==
    Len(word) > 3 =>
        /\ k <= Len(word)
        /\ pc = "returned" => Len(ret) <= Len(word)
        /\ pc = "step1ab" =>
                LET a == step1a(Self)
                IN  ~Panicked(a) => step1b(a).k <= a.k

\* 'ed' was cut off and 'at' rewritten to 'ate': the word returned is one
\* character shorter than the word.
C3_Witness ==
    /\ pc = "returned"
    /\ str_ends_with(word, "ated")
    /\ str_ends_with(ret, "ate")
    /\ Len(ret) = Len(word) - 1

(***************************************************************************)
(* Properties of S::stem, checked under SpecS.                             *)
(***************************************************************************)
\* C4: S::stem lowercases the word and applies the first rule that matches:
\* final 'ies' becomes 'y'; else final 'es' is dropped; else final 's' is
\* dropped; else the lowercased word is returned.  flies -> fly, blesses ->
\* bless, suitcases -> suitcas, theres -> ther, suns -> sun.
C4_SimpleStrip ==
    pc = "returned" =>
        LET w == to_ascii_lowercase(word)
            n == Len(w)
            ies == str_ends_with(w, "ies")
            es  == str_ends_with(w, "es")
            s   == str_ends_with(w, "s")
        IN  /\ ies => ret = SubSeq(w, 1, n - 3) \o "y"
            /\ (~ies /\ es) => ret = SubSeq(w, 1, n - 2)
            /\ (~es /\ s) => ret = SubSeq(w, 1, n - 1)
            /\ ~s => ret = w
            /\ word = "flies" => ret = "fly"
            /\ word = "blesses" => ret = "bless"
            /\ word = "suitcases" => ret = "suitcas"
            /\ word = "theres" => ret = "ther"
            /\ word = "suns" => ret = "sun"

\* 'es' was dropped from suitcases, not 's' alone.
C4_Witness == pc = "returned" /\ word = "suitcases" /\ ret = "suitcas"

(***************************************************************************)
(* The scenarios of Porter::stem, checked under Spec.                      *)
(***************************************************************************)
\* C5: plural stripping: Porter::stem returns caress for caresses, poni for
\* ponies, ti for ties, caress for caress and cat for cats; Step1ab has
\* produced this result and no later phase changes it.
C5_Plurals ==
    \A c \in {<<"caresses", "caress">>, <<"ponies", "poni">>, <<"ties", "ti">>,
              <<"caress", "caress">>, <<"cats", "cat">>} :
        word = c[1] =>
            /\ pc \in {"step1c", "step2", "step3", "step4", "step5", "_stem"}
                    => Live = c[2]
            /\ pc = "returned" => ret = c[2]
            /\ pc # "panic"

\* ponies was stemmed.
C5_Witness == pc = "returned" /\ word = "ponies" /\ ret = "poni"

\* C6 as it was claimed: Porter::stem returns agree for agreed, feed for feed,
\* mat for matting, mate for mating and meet for meeting.
C6_ParticiplesAsClaimed ==
    \A c \in {<<"agreed", "agree">>, <<"feed", "feed">>, <<"matting", "mat">>,
              <<"mating", "mate">>, <<"meeting", "meet">>} :
        (pc = "returned" /\ word = c[1]) => ret = c[2]

\* C6, amended: Porter::stem returns agre for agreed (Step1ab leaves agree,
\* which Step1c to Step4 keep, and Step5 drops its final e), feed for feed,
\* mat for matting, mate for mating and meet for meeting; for the last four
\* the result of Step1ab is what is returned.
C6_Participles ==
    /\ \A c \in {<<"feed", "feed">>, <<"matting", "mat">>,
                 <<"mating", "mate">>, <<"meeting", "meet">>} :
            word = c[1] =>
                /\ pc \in {"step1c", "step2", "step3", "step4", "step5", "_stem"}
                        => Live = c[2]
                /\ pc = "returned" => ret = c[2]
                /\ pc # "panic"
    /\ word = "agreed" =>
            /\ pc \in {"step1c", "step2", "step3", "step4", "step5"} => Live = "agree"
            /\ pc = "_stem" => Live = "agre"
            /\ pc = "returned" => ret = "agre"
            /\ pc # "panic"

\* agreed was stemmed.
C6_Witness == pc = "returned" /\ word = "agreed" /\ ret = "agre"

(***************************************************************************)
(* Properties of Porter::count, checked under SpecCount.                   *)
(***************************************************************************)
\* The measure m of the prefix [0, jj) of b: the number of maximal vowel runs
\* that a consonant follows inside the prefix.
Measure(b, jj) ==
    Cardinality({i \in 0..(jj - 2) : ~is_consonant(b, i) /\ is_consonant(b, i + 1)})

\* C7: for every buffer and cursor 0 <= j <= length, count returns the measure
\* of the prefix [0, j): 0 for b and bc, 1 for beb with j = 3, 2 for bebebe
\* with j = 6, 3 for bebebebe with j = 8.
C7_CountIsMeasure ==
    pc = "returned" =>
        /\ ret = Measure(buf, j)
        /\ buf \in {"b", "bc"} => ret = 0
        /\ (buf = "beb" /\ j = 3) => ret = 1
        /\ (buf = "bebebe" /\ j = 6) => ret = 2
        /\ (buf = "bebebebe" /\ j = 8) => ret = 3

\* count has measured bebebe.
C7_Witness == pc = "returned" /\ buf = "bebebe" /\ j = 6 /\ ret = 2

\* The consonant runs of [0, jj) that follow a vowel and that a vowel follows
\* before jj: the pairs of a consonant run and a vowel run after the first
\* vowel run.
RunPairs(b, jj) ==
    Cardinality({i \in 1..(jj - 1) :
        /\ ~is_consonant(b, i)
        /\ is_consonant(b, i - 1)
        /\ \E h \in 0..(i - 1) : ~is_consonant(b, h)})

\* C8 as it was claimed: count is the number of pairs of a consonant run and a
\* vowel run after the first vowel run; a trailing consonant run that no vowel
\* follows before j does not increment it.
C8_CountIsRunPairs == pc = "returned" => ret = RunPairs(buf, j)

\* C8, amended: the leading consonant run and every vowel run are consumed
\* without incrementing; every consonant run after a vowel increments the
\* count by exactly one, at its first consonant, whether or not a vowel
\* follows it before j.  So moving the cursor from j - 1 to j adds one exactly
\* when position j - 1 is a consonant that follows a vowel, and nothing
\* otherwise.
C8_CountSteps ==
    pc = "returned" =>
        /\ j = 0 => ret = 0
        /\ j > 0 =>
            ret - count([Self EXCEPT !.j = j - 1]) =
                IF j >= 2 /\ is_consonant(buf, j - 1) /\ ~is_consonant(buf, j - 2)
                THEN 1 ELSE 0

\* The trailing consonant of beb, which no vowel follows, was counted.
C8_Witness == pc = "returned" /\ buf = "beb" /\ j = 3 /\ ret = 1

(***************************************************************************)
(* Properties of Porter::ends_with, checked under SpecEndsWith.            *)
(***************************************************************************)
\* C9: ends_with(suffix) returns true exactly when the bytes of [k - len, k)
\* are the suffix; then j becomes k - len; when it returns false, also when
\* len > k, j is left as it was; the buffer and k are unchanged and the call
\* does not fault.
C9_EndsWith ==
    [][pc = "ends_with" =>
        LET len == Len(arg)
            same == len <= k /\ \A i \in 0..(len - 1) : at(buf, k - len + i) = at(arg, i)
        IN  /\ pc' = "returned"
            /\ ret' = same
            /\ j' = IF same THEN k - len ELSE j
            /\ buf' = buf
            /\ k' = k
            /\ (word = "session" /\ k = 7 /\ arg = "ion") => ret'
            /\ (word = "session" /\ k = 7 /\ arg = "ions") => ~ret']_vars

\* ends_with has matched a suffix shorter than the live word and moved j.
C9_Witness ==
    /\ pc = "returned"
    /\ ret
    /\ Len(arg) > 0
    /\ k > Len(arg)
    /\ j = k - Len(arg)

(***************************************************************************)
(* Properties of the indices of Porter::stem, checked under Spec.          *)
(***************************************************************************)
\* C10 as it was claimed: after every phase 0 <= k <= buffer length, the
\* buffer keeps its length and no replace writes past it, and wherever j is
\* read 0 <= j <= k, j having been assigned earlier in the same phase.
C10_IndicesAsClaimed ==
    /\ 0 <= k /\ k <= Len(buf)
    /\ (pc # "stem" /\ Len(word) > 2) => Len(buf) = Len(word)
    /\ fault # "buf[j + i]"
    /\ \A e \in reads : e.set /\ 0 <= e.j /\ e.j <= e.k

\* C10, amended: after every phase 0 <= k <= buffer length, the buffer keeps
\* its length and no replace writes past it, and wherever j is read it was
\* assigned earlier in the same phase and 0 <= j <= buffer length; j <= k
\* holds at every read but the count() of Step5's test for a double l after
\* Step5 has dropped a final e, where j is still the k Step5 began with, k + 1.
C10_Indices ==
    /\ 0 <= k /\ k <= Len(buf)
    /\ (pc # "stem" /\ Len(word) > 2) => Len(buf) = Len(word)
    /\ fault # "buf[j + i]"
    /\ \A e \in reads :
        /\ e.set
        /\ 0 <= e.j /\ e.j <= Len(buf)
        /\ \/ e.j <= e.k
           \/ /\ e.phase = "step5"
              /\ e.site = "count"
              /\ e.j = e.k + 1
              /\ at(buf, e.k) = "e"
              /\ at(buf, e.k - 1) = "l"

\* Step5 dropped a final e and read j = k + 1 in the count() of its test for
\* a double l.
C10_Witness ==
    /\ pc = "returned"
    /\ \E e \in reads : e.phase = "step5" /\ e.j = e.k + 1

(***************************************************************************)
(* Properties of Step4, checked under Spec.                                *)
(***************************************************************************)
\* The suffixes of Step4, in the order in which it tests them.
Step4Suffixes ==
    <<"al", "ance", "ence", "er", "ic", "able", "ible", "ant", "ement", "ment",
      "ent", "ion", "ou", "ism", "ate", "iti", "ous", "ive", "ize">>

\* The live word ends with the suffix s of Step4; "ion" counts only after an
\* 's' or a 't'.
Step4Matches(s) ==
    /\ str_ends_with(Live, s)
    /\ s = "ion" => (k - 4 >= 0 /\ at(buf, k - 4) \in {"s", "t"})

\* The k that Step4 is to leave: the start of the first suffix that matches
\* when the measure of the stem before it is greater than 1, else k.
Step4Expected ==
    LET hits == {i \in 1..Len(Step4Suffixes) : Step4Matches(Step4Suffixes[i])}
    IN  IF hits = {} THEN k
        ELSE LET first == CHOOSE i \in hits : \A h \in hits : i <= h
                 start == k - Len(Step4Suffixes[first])
             IN  IF Measure(buf, start) > 1 THEN start ELSE k

\* C11: Step4 changes the word only by truncating it to the start of the first
\* suffix of its list that matches (al, ance, ence, er, ic, able, ible, ant,
\* ement, ment, ent, ion, ou, ism, ate, iti, ous, ive, ize), and only when the
\* measure of the stem before that suffix is greater than 1; 'ion' matches
\* only after an 's' or a 't'; when no suffix matches or the measure is 0 or 1,
\* k and the buffer are unchanged, and no shorter overlapping suffix is tried.
\* Step4 then goes on to Step5, except for the live word "ion" itself, where
\* it panics (C1) with the word unchanged.
C11_Step4Truncates ==
    [][pc = "step4" =>
        /\ buf' = buf
        /\ k' = Step4Expected
        /\ \/ pc' = "step5"
           \/ pc' = "panic" /\ Live = "ion"]_vars

\* Step4 has truncated the word at the start of a suffix.
C11_Witness ==
    /\ pc = "step5"
    /\ \E e \in reads : e.phase = "step4" /\ e.site = "k = j" /\ e.j < e.k /\ e.j = k

====
